---- MODULE Spec2Model ----
(***************************************************************************)
(* Model of scripts/update_performance.js: the per-ticker fetch/cache loop *)
(* of one run, the weekly index built from the resolved series, and the    *)
(* files (cache/<TICKER>.json, performance.json) that survive from one run *)
(* to the next.                                                            *)
(*                                                                         *)
(* Representation.                                                         *)
(*  - A Date is the number of whole hours since 1970-01-01T00:00Z (the     *)
(*    script never looks below the hour: freshness is 24 h, labels are     *)
(*    days).                                                               *)
(*  - An ISO date string "YYYY-MM-DD" is the tuple <<Y, M, D>>; the        *)
(*    string comparisons of the script are lexicographic comparisons of    *)
(*    these fixed-width tuples.                                            *)
(*  - A JS object used as a date -> price map is the sequence of its       *)
(*    [date, px] entries in key (insertion) order.                         *)
(*  - Weights and prices are integers; an index value is an integer count  *)
(*    of 1/10000 (toFixed(4)), a percentage a count of 1/100 (toFixed(2)). *)
(*    Rounding is that of Number.prototype.toFixed on the exact quotient.  *)
(***************************************************************************)
EXTENDS Integers, Sequences, FiniteSets, TLC

VARIABLES
    apiKey,              \* process.env.ALPHAVANTAGE_API_KEY is set
    holdingsFile,        \* data/holdings.json
    cacheFiles,          \* data/cache/<TICKER>.json, by upper-cased ticker
    perfFile,            \* data/performance.json
    now,                 \* the clock, in hours
    pc,                  \* position of main
    exitCode,            \* status of the last process.exit, 0 if none
    runs,                \* runs started so far
    holdingsRaw,         \* main: holdingsRaw
    holdings,            \* main: holdings (filtered, normalised)
    i,                   \* main: index of the holding the loop is at
    cached,              \* main: cached (of the current iteration)
    series,              \* main: series (of the current iteration)
    seriesByTicker,      \* main: seriesByTicker
    latestPriceByTicker, \* main: latestPriceByTicker
    endFriday,           \* main: endFriday
    labels,              \* main: labels
    weeklyPrices,        \* main: weeklyPrices
    baselinePortfolioPrice, \* main: baselinePortfolioPrice
    longTermIndex,       \* main: longTermIndex
    event,               \* the step main took last
    sinceFetch,          \* "none" | "fetched" | "delayed": what followed the last fetch of this run
    writtenFrom,         \* the seriesByTicker perfFile was computed from
    call,                \* a call of one of the pure helpers: its arguments
    ret                  \* ... and its result

vars == <<apiKey, holdingsFile, cacheFiles, perfFile, now, pc, exitCode, runs,
          holdingsRaw, holdings, i, cached, series, seriesByTicker,
          latestPriceByTicker, endFriday, labels, weeklyPrices,
          baselinePortfolioPrice, longTermIndex, event, sinceFetch,
          writtenFrom, call, ret>>

mainVars == <<apiKey, holdingsFile, cacheFiles, perfFile, now, pc, exitCode, runs,
              holdingsRaw, holdings, i, cached, series, seriesByTicker,
              latestPriceByTicker, endFriday, labels, weeklyPrices,
          baselinePortfolioPrice, longTermIndex, event, sinceFetch,
              writtenFrom>>

fnVars == <<call, ret>>

----------------------------------------------------------------------------
(* Bounds *)

MaxRuns == 2

MaxHoldings == 2

MaxKeys == 2

FnDays == 9

----------------------------------------------------------------------------
(* Program constants *)

API_CALL_DELAY_MS == 13000

MaxAgeHours == 24

Weeks == 52

HoursPerDay == 24

----------------------------------------------------------------------------
(* Values *)

\* Number("...") that is not finite
NaN == -1000000

NullPx == [isNull |-> TRUE, v |-> 0]

Px(v) == [isNull |-> FALSE, v |-> v]

NullSeries == [isNull |-> TRUE, entries |-> <<>>]

Obj(entries) == [isNull |-> FALSE, entries |-> entries]

\* readJsonSafe(cPath, null) when the file does not exist or does not parse
NullCache == [exists |-> FALSE, hasFetchedAt |-> FALSE, fetchedAt |-> 0, series |-> NullSeries]

CacheObj(t, s) == [exists |-> TRUE, hasFetchedAt |-> TRUE, fetchedAt |-> t, series |-> s]

NullPerf == [exists |-> FALSE]

----------------------------------------------------------------------------
(* Dates *)

\* a < b on ISO date strings (fixed width): lexicographic
StrLess(a, b) ==
    \/ a[1] < b[1]
    \/ a[1] = b[1] /\ a[2] < b[2]
    \/ a[1] = b[1] /\ a[2] = b[2] /\ a[3] < b[3]

StrLeq(a, b) == a = b \/ StrLess(a, b)

\* d.toISOString().slice(0, 10): the proleptic Gregorian date of the UTC day
isoDate(d) ==
    LET z    == (d \div HoursPerDay) + 719468
        era  == z \div 146097
        doe  == z - era * 146097
        yoe  == (doe - (doe \div 1460) + (doe \div 36524) - (doe \div 146096)) \div 365
        doy  == doe - (365 * yoe + (yoe \div 4) - (yoe \div 100))
        mp   == (5 * doy + 2) \div 153
        day  == doy - ((153 * mp + 2) \div 5) + 1
        m    == IF mp < 10 THEN mp + 3 ELSE mp - 9
        y    == yoe + era * 400 + (IF m <= 2 THEN 1 ELSE 0)
    IN  <<y, m, day>>

\* d.getUTCDay(): Sun=0 ... Sat=6; 1970-01-01 was a Thursday
getUTCDay(d) == ((d \div HoursPerDay) + 4) % 7

\* new Date(Date.UTC(y, m, d)) of now: midnight of the UTC day
UTCMidnight(d) == (d \div HoursPerDay) * HoursPerDay

mostRecentFridayDiffOff(day) == IF day > 5 THEN day - 5 ELSE 7 - (5 - day)

mostRecentFridayDiff(day) == IF day >= 5 THEN day - 5 ELSE 7 - (5 - day)

mostRecentFridayUTC(n) ==
    LET d   == UTCMidnight(n)
        day == getUTCDay(d)
    IN  d - mostRecentFridayDiff(day) * HoursPerDay

subtractDaysUTC(d, days) == d - days * HoursPerDay

buildWeeklyLabelsNoStep(end, weeks) ==
    [k \in 1..weeks |-> isoDate(subtractDaysUTC(end, 7))]

buildWeeklyLabels(end, weeks) ==
    [k \in 1..weeks |-> isoDate(subtractDaysUTC(end, (weeks - k) * 7))]

----------------------------------------------------------------------------
(* Series lookup *)

\* Object.keys(seriesObj)
Keys(entries) == [k \in 1..Len(entries) |-> entries[k].date]

\* seriesObj[d]
Get(entries, d) ==
    IF \E k \in 1..Len(entries) : entries[k].date = d
    THEN Px((entries[CHOOSE k \in 1..Len(entries) : entries[k].date = d]).px)
    ELSE NullPx

\* the comparator (a, b) => (a < b ? 1 : -1)
DescCmpAsc(a, b) == IF StrLess(a, b) THEN -1 ELSE 1

DescCmp(a, b) == IF StrLess(a, b) THEN 1 ELSE -1

RECURSIVE InsertBy(_, _)
\* x placed into the sorted sequence s, before the first element it does not follow
InsertBy(x, s) ==
    IF s = <<>> THEN <<x>>
    ELSE IF DescCmp(x, Head(s)) < 0 THEN <<x>> \o s
    ELSE <<Head(s)>> \o InsertBy(x, Tail(s))

RECURSIVE SortDesc(_)
\* dates.sort((a, b) => (a < b ? 1 : -1))
SortDesc(s) == IF s = <<>> THEN <<>> ELSE InsertBy(Head(s), SortDesc(Tail(s)))

RECURSIVE FirstLeq(_, _, _)
\* for (const d of dates) if (d <= targetISO) return seriesObj[d]; return null
FirstLeq(dates, entries, targetISO) ==
    IF dates = <<>> THEN NullPx
    ELSE IF StrLeq(Head(dates), targetISO) THEN Get(entries, Head(dates))
    ELSE FirstLeq(Tail(dates), entries, targetISO)

priceOnOrBefore(seriesObj, targetISO) ==
    IF seriesObj.isNull THEN NullPx
    ELSE IF Len(seriesObj.entries) = 0 THEN NullPx
    ELSE FirstLeq(SortDesc(Keys(seriesObj.entries)), seriesObj.entries, targetISO)

----------------------------------------------------------------------------
(* Holdings *)

\* Number(h.weight) || 0
NumberOr0(w) == IF w = NaN THEN 0 ELSE w

\* s.toUpperCase(), on the tickers of the model
toUpperCase(s) ==
    CASE s = "a"  -> "A"
      [] s = " a" -> " A"
      [] s = "usd-cash" -> "USD-CASH"
      [] OTHER -> s

\* s.trim(), on the tickers of the model
trim(s) ==
    CASE s = " a" -> "a"
      [] s = " A" -> "A"
      [] OTHER -> s

\* t.includes("CASH") || t.includes("HEDGE") || t === "USD" || t === "USD-CASH"
IsPseudo(t) == t \in {"CASH", "USD-CASH", "CASHHEDGE1", "HEDGE", "USD"}

\* seriesByTicker[t]: undefined when the key is absent
Lookup(byTicker, t) == IF t \in DOMAIN byTicker THEN byTicker[t] ELSE NullSeries

\* Number.isFinite(px)
IsFinite(px) == px # NaN

HoldingContributionCountsMissing(h, byTicker, dateISO) ==
    LET w  == NumberOr0(h.weight)
        t  == toUpperCase(trim(h.ticker))
        px == priceOnOrBefore(Lookup(byTicker, t), dateISO)
    IN  IF t = "" \/ w <= 0 THEN [total |-> 0, coveredWeight |-> 0]
        ELSE IF ~px.isNull /\ IsFinite(px.v)
             THEN [total |-> w * px.v, coveredWeight |-> w]
             ELSE [total |-> 0, coveredWeight |-> w]

\* the body of the loop of portfolioPriceAtDate: what one holding adds
HoldingContribution(h, byTicker, dateISO) ==
    LET w  == NumberOr0(h.weight)
        t  == toUpperCase(trim(h.ticker))
        px == priceOnOrBefore(Lookup(byTicker, t), dateISO)
    IN  IF t = "" \/ w <= 0 THEN [total |-> 0, coveredWeight |-> 0]
        ELSE IF ~px.isNull /\ IsFinite(px.v)
             THEN [total |-> w * px.v, coveredWeight |-> w]
             ELSE [total |-> 0, coveredWeight |-> 0]

RECURSIVE portfolioPriceAtDate(_, _, _)
portfolioPriceAtDate(hs, byTicker, dateISO) ==
    IF hs = <<>> THEN [total |-> 0, coveredWeight |-> 0]
    ELSE LET c    == HoldingContribution(Head(hs), byTicker, dateISO)
             rest == portfolioPriceAtDate(Tail(hs), byTicker, dateISO)
         IN  [total |-> c.total + rest.total,
              coveredWeight |-> c.coveredWeight + rest.coveredWeight]

----------------------------------------------------------------------------
(* Calls of the pure helpers *)

\* Thursday 2025-01-09T00:00Z
FnNow0 == 20097 * HoursPerDay

FnHours == {0, 1, 23}

FnDates == {<<2023, 12, 29>>, <<2024, 1, 5>>, <<2024, 1, 12>>}

FnTargets == {<<2023, 12, 1>>, <<2024, 1, 5>>, <<2024, 1, 10>>, <<2024, 2, 1>>}

FnPrices == {0, 10, 11, NaN}

FnEntries == [date : FnDates, px : FnPrices]

\* objects of at most MaxKeys keys, in every key order
FnSeries ==
    {NullSeries} \cup
    { Obj(e) : e \in { s \in UNION { [1..n -> FnEntries] : n \in 0..MaxKeys } :
                         \A j, k \in 1..Len(s) : j # k => s[j].date # s[k].date } }

FnTickers == {"", " a", "B"}

FnWeights == {NaN, -2, 1, 3}

FnHoldings == UNION { [1..n -> [ticker : FnTickers, weight : FnWeights]] : n \in 0..MaxHoldings }

FnSeriesA ==
    { NullSeries,
      Obj(<<[date |-> <<2024, 1, 12>>, px |-> 11], [date |-> <<2024, 1, 5>>, px |-> 10]>>),
      Obj(<<[date |-> <<2024, 1, 5>>, px |-> NaN]>>),
      Obj(<<[date |-> <<2023, 12, 29>>, px |-> 0]>>) }

FnSeriesB ==
    { Obj(<<>>),
      Obj(<<[date |-> <<2023, 12, 29>>, px |-> 10], [date |-> <<2024, 1, 12>>, px |-> 11]>>) }

FnByTicker ==
    { [t \in {"A"} |-> a] : a \in FnSeriesA } \cup
    { [t \in {"A", "B"} |-> IF t = "A" THEN a ELSE b] : a \in FnSeriesA, b \in FnSeriesB }

FnCalls ==
    { [op |-> "mostRecentFridayUTC", now |-> FnNow0 + d * HoursPerDay + h] :
        d \in 0..(FnDays - 1), h \in FnHours } \cup
    { [op |-> "priceOnOrBefore", seriesObj |-> s, targetISO |-> t] :
        s \in FnSeries, t \in FnTargets } \cup
    { [op |-> "portfolioPriceAtDate", holdings |-> hs, seriesByTicker |-> m, dateISO |-> t] :
        hs \in FnHoldings, m \in FnByTicker, t \in FnTargets }

NoCall == [op |-> "none"]

NoRet == [done |-> FALSE]

CallMostRecentFriday ==
    /\ call.op = "mostRecentFridayUTC"
    /\ ~ret.done
    /\ ret' = [done |-> TRUE, d |-> mostRecentFridayUTC(call.now)]
    /\ UNCHANGED <<mainVars, call>>

CallPriceOnOrBefore ==
    /\ call.op = "priceOnOrBefore"
    /\ ~ret.done
    /\ ret' = [done |-> TRUE, px |-> priceOnOrBefore(call.seriesObj, call.targetISO)]
    /\ UNCHANGED <<mainVars, call>>

CallPortfolioPriceAtDate ==
    /\ call.op = "portfolioPriceAtDate"
    /\ ~ret.done
    /\ ret' = [done |-> TRUE,
               p |-> portfolioPriceAtDate(call.holdings, call.seriesByTicker, call.dateISO)]
    /\ UNCHANGED <<mainVars, call>>

----------------------------------------------------------------------------
(* Index arithmetic *)

IndexScale == 10000

\* n / d rounded to the nearest integer, halves away from zero (toFixed), n >= 0 < d
RoundDiv(n, d) == IF 2 * (n % d) >= d THEN (n \div d) + 1 ELSE n \div d

ToFixedDiv(n, d) == IF n >= 0 THEN RoundDiv(n, d) ELSE 0 - RoundDiv(0 - n, d)

RECURSIVE FindPositive(_, _)
\* weeklyPrices.find(p => p.total > 0) || { total: 1, coveredWeight: 0 }, from index k on
FindPositive(ps, k) ==
    IF k > Len(ps) THEN [total |-> 1, coveredWeight |-> 0]
    ELSE IF ps[k].total > 0 THEN ps[k]
    ELSE FindPositive(ps, k + 1)

BaselineOfFirstPoint(ps) == IF ps[1].total # 0 THEN ps[1].total ELSE 1

\* baselinePortfolioPrice = firstNonZero.total || 1
Baseline(ps) ==
    LET firstNonZero == FindPositive(ps, 1)
    IN  IF firstNonZero.total # 0 THEN firstNonZero.total ELSE 1

\* Number(((p.total / baselinePortfolioPrice) * 100).toFixed(4)), in 1/10000
IndexOf(total, baseline) == ToFixedDiv(total * 100 * IndexScale, baseline)

LongTermIndex(ps, baseline) == [k \in 1..Len(ps) |-> IndexOf(ps[k].total, baseline)]

FirstIndexFallbackOne(lti) ==
    IF lti[1] # 0 THEN lti[1] ELSE 1 * IndexScale

\* lti[0] || 100
FirstIndex(lti) ==
    IF lti[1] # 0 THEN lti[1] ELSE 100 * IndexScale

\* x * 10000 / d rounded, x >= 0 < d, by long division (no product leaves 32 bits)
PctOfDiff(x, d) ==
    LET a == (x % d) * 100
        b == (a % d) * 100
    IN  (x \div d) * 10000 + (a \div d) * 100 + RoundDiv(b, d)

\* Number((((latestIndex / firstIndex) - 1) * 100).toFixed(2)), in 1/100
ChangePct(latestIndex, firstIndex) ==
    IF latestIndex >= firstIndex
    THEN PctOfDiff(latestIndex - firstIndex, firstIndex)
    ELSE 0 - PctOfDiff(firstIndex - latestIndex, firstIndex)

----------------------------------------------------------------------------
(* The files and the API *)

Missing == [exists |-> FALSE, parses |-> FALSE, holdings |-> <<>>]

Malformed == [exists |-> TRUE, parses |-> FALSE, holdings |-> <<>>]

File(hs) == [exists |-> TRUE, parses |-> TRUE, holdings |-> hs]

H(t, w) == [ticker |-> t, weight |-> w]

HoldingsFiles ==
    { Missing, Malformed,
      File(<<H("A", 1)>>),
      File(<<H("a", 2), H("B", 1)>>),
      File(<<H("B", 3), H("usd-cash", 1)>>),
      File(<<H("", 1), H("A", NaN)>>),
      File(<<H("A", 1), H("a", 2)>>) }

CachePaths == {"A", "B"}

\* Friday 2025-01-10T06:00Z
Now0 == 20098 * HoursPerDay + 6

E(y, m, d, px) == [date |-> <<y, m, d>>, px |-> px]

Rows1 == <<E(2025, 1, 10, 20), E(2023, 12, 29, 10)>>

Rows2 == <<E(2025, 1, 10, 20), E(2025, 1, 3, 15), E(2023, 12, 29, 10)>>

Rows3 == <<E(2025, 1, 10, NaN), E(2025, 1, 3, 30), E(2024, 12, 27, 15)>>

Response(ok, note, err, has, rows) ==
    [ok |-> ok, Note |-> note, ErrorMessage |-> err, hasSeries |-> has, rows |-> rows]

ApiResponses ==
    { Response(FALSE, FALSE, FALSE, FALSE, <<>>),
      Response(TRUE, TRUE, FALSE, FALSE, <<>>),
      Response(TRUE, FALSE, TRUE, FALSE, <<>>),
      Response(TRUE, FALSE, FALSE, FALSE, <<>>),
      Response(TRUE, FALSE, FALSE, TRUE, Rows1),
      Response(TRUE, FALSE, FALSE, TRUE, Rows2),
      Response(TRUE, FALSE, FALSE, TRUE, Rows3) }

InitCaches ==
    { NullCache,
      CacheObj(Now0 - 1, Obj(Rows1)),
      CacheObj(Now0 - 30, Obj(Rows1)),
      [exists |-> TRUE, hasFetchedAt |-> FALSE, fetchedAt |-> 0, series |-> Obj(Rows1)],
      CacheObj(Now0 - 1, NullSeries) }

TickHours == {12, 24, 168}

\* fs.existsSync(HOLDINGS_PATH)
existsSyncAlways(f) == TRUE

existsSync(f) == f.exists

\* readJsonSafe(HOLDINGS_PATH, { holdings: [] }).holdings, [] unless an array
HoldingsRawOf(f) == IF f.exists /\ f.parses THEN f.holdings ELSE <<>>

RECURSIVE FilterHoldings(_)
\* holdingsRaw.filter(not pseudo).map(upper-case the ticker, Number(weight) || 0)
FilterHoldings(hs) ==
    IF hs = <<>> THEN <<>>
    ELSE LET t == toUpperCase(Head(hs).ticker)
         IN  IF t = "" \/ IsPseudo(t) THEN FilterHoldings(Tail(hs))
             ELSE <<[ticker |-> t, weight |-> NumberOr0(Head(hs).weight)]>>
                    \o FilterHoldings(Tail(hs))

\* fetchJson and fetchWeeklyAdjustedSeries throw
Throws(resp) == ~resp.ok \/ resp.Note \/ resp.ErrorMessage \/ ~resp.hasSeries

RECURSIVE FiniteRows(_)
\* out[date] = adj for the rows whose adjusted close is finite
FiniteRows(rows) ==
    IF rows = <<>> THEN <<>>
    ELSE IF IsFinite(Head(rows).px) THEN <<Head(rows)>> \o FiniteRows(Tail(rows))
    ELSE FiniteRows(Tail(rows))

cacheIsFreshInverted(cacheObj, maxAgeHours, t) ==
    IF ~cacheObj.exists \/ ~cacheObj.hasFetchedAt THEN FALSE
    ELSE (t - cacheObj.fetchedAt) > maxAgeHours

\* t is Date.now(), in hours
cacheIsFresh(cacheObj, maxAgeHours, t) ==
    IF ~cacheObj.exists \/ ~cacheObj.hasFetchedAt THEN FALSE
    ELSE (t - cacheObj.fetchedAt) < maxAgeHours

FallbackNever(c) == NullSeries

\* catch: if (cached && cached.series) series = cached.series, series being null
Fallback(c) == IF c.exists /\ ~c.series.isNull THEN c.series ELSE NullSeries

\* latestPriceByTicker[ticker]
LatestPrice(s) ==
    IF s.isNull \/ Len(s.entries) = 0 THEN NullPx
    ELSE Get(s.entries, SortDesc(Keys(s.entries))[1])

EmptyMap == [t \in {} |-> NullSeries]

Put(m, k, v) == [t \in (DOMAIN m) \cup {k} |-> IF t = k THEN v ELSE m[t]]

\* enrichedHoldings
Enriched(raw, latest) ==
    [k \in 1..Len(raw) |->
        LET t == toUpperCase(raw[k].ticker)
        IN  [ticker |-> raw[k].ticker,
             weight |-> NumberOr0(raw[k].weight),
             price  |-> IF t # "" /\ t \in DOMAIN latest THEN latest[t] ELSE NullPx]]

\* the document main writes to PERF_PATH
PerfDoc(raw, latest, end, ls, lti, baseline) ==
    LET latestIndex == lti[Len(lti)]
    IN  [exists |-> TRUE,
         labels |-> ls,
         longTermIndex |-> lti,
         latest |-> [index |-> ToFixedDiv(latestIndex, 100),
                     changePct |-> ChangePct(latestIndex, FirstIndex(lti))],
         holdings |-> Enriched(raw, latest),
         historyAsOfFridayUTC |-> isoDate(end),
         baselinePortfolioPrice |-> baseline]

----------------------------------------------------------------------------
(* main *)

Ticker == holdings[i].ticker

\* cachePathFor(symbol)
cachePathFor(symbol) == toUpperCase(symbol)

\* readJsonSafe(cPath, null)
ReadCache == cacheFiles[cachePathFor(Ticker)]

\* a run of the script is started (by its scheduler)
StartRun ==
    /\ pc = "idle"
    /\ runs < MaxRuns
    /\ runs' = runs + 1
    /\ pc' = "start"
    /\ exitCode' = 0
    /\ holdingsRaw' = <<>>
    /\ holdings' = <<>>
    /\ i' = 0
    /\ cached' = NullCache
    /\ series' = NullSeries
    /\ seriesByTicker' = EmptyMap
    /\ latestPriceByTicker' = EmptyMap
    /\ endFriday' = 0
    /\ labels' = <<>>
    /\ weeklyPrices' = <<>>
    /\ baselinePortfolioPrice' = 0
    /\ longTermIndex' = <<>>
    /\ sinceFetch' = "none"
    /\ event' = "start"
    /\ UNCHANGED <<apiKey, holdingsFile, cacheFiles, perfFile, now, writtenFrom, fnVars>>

\* time passes between two runs
Tick(d) ==
    /\ pc \in {"done", "exited"}
    /\ now' = now + d
    /\ pc' = "idle"
    /\ event' = "tick"
    /\ UNCHANGED <<apiKey, holdingsFile, cacheFiles, perfFile, exitCode, runs, holdingsRaw,
                   holdings, i, cached, series, seriesByTicker, latestPriceByTicker,
                   endFriday, labels, weeklyPrices, baselinePortfolioPrice, longTermIndex,
                   sinceFetch, writtenFrom, fnVars>>

Exit(code) ==
    /\ pc' = "exited"
    /\ exitCode' = code
    /\ event' = "exit"
    /\ UNCHANGED <<apiKey, holdingsFile, cacheFiles, perfFile, now, runs, holdingsRaw,
                   holdings, i, cached, series, seriesByTicker, latestPriceByTicker,
                   endFriday, labels, weeklyPrices, baselinePortfolioPrice, longTermIndex,
                   sinceFetch, writtenFrom, fnVars>>

\* if (!API_KEY) process.exit(1)
ExitMissingKey ==
    /\ pc = "start"
    /\ ~apiKey
    /\ Exit(1)

\* if (!fs.existsSync(HOLDINGS_PATH)) process.exit(1)
ExitMissingHoldings ==
    /\ pc = "start"
    /\ apiKey
    /\ ~existsSync(holdingsFile)
    /\ Exit(1)

\* ensureDir, the holdings are read and filtered, the loop is entered
LoadHoldings ==
    /\ pc = "start"
    /\ apiKey
    /\ existsSync(holdingsFile)
    /\ holdingsRaw' = HoldingsRawOf(holdingsFile)
    /\ holdings' = FilterHoldings(HoldingsRawOf(holdingsFile))
    /\ i' = 1
    /\ pc' = "loop"
    /\ event' = "load"
    /\ UNCHANGED <<apiKey, holdingsFile, cacheFiles, perfFile, now, exitCode, runs, cached,
                   series, seriesByTicker, latestPriceByTicker, endFriday, labels, weeklyPrices,
                   baselinePortfolioPrice, longTermIndex, sinceFetch, writtenFrom, fnVars>>

\* seriesByTicker[ticker] = series and latestPriceByTicker[ticker], then the next holding
Record(s) ==
    /\ seriesByTicker' = Put(seriesByTicker, Ticker, s)
    /\ latestPriceByTicker' = Put(latestPriceByTicker, Ticker, LatestPrice(s))
    /\ i' = i + 1
    /\ pc' = "loop"

\* the cached entry is fresh and has a series: no call
UseCache ==
    /\ pc = "loop"
    /\ i <= Len(holdings)
    /\ cacheIsFresh(ReadCache, MaxAgeHours, now) /\ ~ReadCache.series.isNull
    /\ cached' = ReadCache
    /\ series' = ReadCache.series
    /\ Record(ReadCache.series)
    /\ event' = "useCache"
    /\ UNCHANGED <<apiKey, holdingsFile, cacheFiles, perfFile, now, exitCode, runs,
                   holdingsRaw, holdings, endFriday, labels, weeklyPrices, baselinePortfolioPrice,
                   longTermIndex, sinceFetch, writtenFrom, fnVars>>

\* otherwise fetchWeeklyAdjustedSeries(ticker) is called
FetchStart ==
    /\ pc = "loop"
    /\ i <= Len(holdings)
    /\ ~(cacheIsFresh(ReadCache, MaxAgeHours, now) /\ ~ReadCache.series.isNull)
    /\ cached' = ReadCache
    /\ series' = NullSeries
    /\ pc' = "fetching"
    /\ event' = "fetchStart"
    /\ UNCHANGED <<apiKey, holdingsFile, cacheFiles, perfFile, now, exitCode, runs,
                   holdingsRaw, holdings, i, seriesByTicker, latestPriceByTicker,
                   endFriday, labels, weeklyPrices, baselinePortfolioPrice, longTermIndex,
                   sinceFetch, writtenFrom, fnVars>>

\* the call returns a series: the cache file is written, then sleep(API_CALL_DELAY_MS)
FetchOk(resp) ==
    /\ pc = "fetching"
    /\ ~Throws(resp)
    /\ series' = Obj(FiniteRows(resp.rows))
    /\ cacheFiles' = [cacheFiles EXCEPT ![cachePathFor(Ticker)] =
                          CacheObj(now, Obj(FiniteRows(resp.rows)))]
    /\ pc' = "sleeping"
    /\ sinceFetch' = "fetched"
    /\ event' = "fetchOk"
    /\ UNCHANGED <<apiKey, holdingsFile, perfFile, now, exitCode, runs, holdingsRaw,
                   holdings, i, cached, seriesByTicker, latestPriceByTicker, endFriday, labels,
                   weeklyPrices, baselinePortfolioPrice, longTermIndex, writtenFrom, fnVars>>

\* the call throws: the catch block, then the rest of the iteration
FetchFail(resp) ==
    /\ pc = "fetching"
    /\ Throws(resp)
    /\ series' = Fallback(cached)
    /\ Record(Fallback(cached))
    /\ sinceFetch' = "fetched"
    /\ event' = "fetchFail"
    /\ UNCHANGED <<apiKey, holdingsFile, cacheFiles, perfFile, now, exitCode, runs,
                   holdingsRaw, holdings, cached, endFriday, labels, weeklyPrices,
                   baselinePortfolioPrice, longTermIndex, writtenFrom, fnVars>>

\* the sleep is over: the rest of the iteration
SleepDone ==
    /\ pc = "sleeping"
    /\ Record(series)
    /\ sinceFetch' = "delayed"
    /\ event' = "slept"
    /\ UNCHANGED <<apiKey, holdingsFile, cacheFiles, perfFile, now, exitCode, runs,
                   holdingsRaw, holdings, cached, series, endFriday, labels, weeklyPrices,
                   baselinePortfolioPrice, longTermIndex, writtenFrom, fnVars>>

\* after the loop: endFriday and the labels
BuildLabels ==
    /\ pc = "loop"
    /\ i > Len(holdings)
    /\ endFriday' = mostRecentFridayUTC(now)
    /\ labels' = buildWeeklyLabels(mostRecentFridayUTC(now), Weeks)
    /\ pc' = "labelled"
    /\ event' = "labels"
    /\ UNCHANGED <<apiKey, holdingsFile, cacheFiles, perfFile, now, exitCode, runs,
                   holdingsRaw, holdings, i, cached, series, seriesByTicker,
                   latestPriceByTicker, weeklyPrices, baselinePortfolioPrice,
                   longTermIndex, sinceFetch, writtenFrom, fnVars>>

\* weeklyPrices = labels.map(d => portfolioPriceAtDate(holdings, seriesByTicker, d))
PriceWeeks ==
    /\ pc = "labelled"
    /\ weeklyPrices' = [k \in 1..Len(labels) |->
                           portfolioPriceAtDate(holdings, seriesByTicker, labels[k])]
    /\ pc' = "priced"
    /\ event' = "prices"
    /\ UNCHANGED <<apiKey, holdingsFile, cacheFiles, perfFile, now, exitCode, runs,
                   holdingsRaw, holdings, i, cached, series, seriesByTicker,
                   latestPriceByTicker, endFriday, labels, baselinePortfolioPrice,
                   longTermIndex, sinceFetch, writtenFrom, fnVars>>

\* the baseline and the index
BuildIndex ==
    /\ pc = "priced"
    /\ baselinePortfolioPrice' = Baseline(weeklyPrices)
    /\ longTermIndex' = LongTermIndex(weeklyPrices, Baseline(weeklyPrices))
    /\ pc' = "built"
    /\ event' = "index"
    /\ UNCHANGED <<apiKey, holdingsFile, cacheFiles, perfFile, now, exitCode, runs,
                   holdingsRaw, holdings, i, cached, series, seriesByTicker,
                   latestPriceByTicker, endFriday, labels, weeklyPrices, sinceFetch,
                   writtenFrom, fnVars>>

\* performance.json is written
WritePerf ==
    /\ pc = "built"
    /\ perfFile' = PerfDoc(holdingsRaw, latestPriceByTicker, endFriday, labels,
                           longTermIndex, baselinePortfolioPrice)
    /\ writtenFrom' = seriesByTicker
    /\ pc' = "done"
    /\ event' = "write"
    /\ UNCHANGED <<apiKey, holdingsFile, cacheFiles, now, exitCode, runs, holdingsRaw,
                   holdings, i, cached, series, seriesByTicker, latestPriceByTicker,
                   endFriday, labels, weeklyPrices, baselinePortfolioPrice, longTermIndex,
                   sinceFetch, fnVars>>

Init ==
    /\ apiKey \in BOOLEAN
    /\ holdingsFile \in HoldingsFiles
    /\ cacheFiles \in { [p \in CachePaths |-> IF p = "A" THEN c ELSE NullCache] : c \in InitCaches }
    /\ perfFile = NullPerf
    /\ now = Now0
    /\ pc = "idle"
    /\ exitCode = 0
    /\ runs = 0
    /\ holdingsRaw = <<>>
    /\ holdings = <<>>
    /\ i = 0
    /\ cached = NullCache
    /\ series = NullSeries
    /\ seriesByTicker = EmptyMap
    /\ latestPriceByTicker = EmptyMap
    /\ endFriday = 0
    /\ labels = <<>>
    /\ weeklyPrices = <<>>
    /\ baselinePortfolioPrice = 0
    /\ longTermIndex = <<>>
    /\ event = "init"
    /\ sinceFetch = "none"
    /\ writtenFrom = EmptyMap
    /\ call = NoCall
    /\ ret = NoRet

RunStep ==
    \/ ExitMissingKey
    \/ ExitMissingHoldings
    \/ LoadHoldings
    \/ UseCache
    \/ FetchStart
    \/ \E resp \in ApiResponses : FetchOk(resp)
    \/ \E resp \in ApiResponses : FetchFail(resp)
    \/ SleepDone
    \/ BuildLabels
    \/ PriceWeeks
    \/ BuildIndex
    \/ WritePerf

Next ==
    \/ StartRun
    \/ \E d \in TickHours : Tick(d)
    \/ RunStep

Spec == Init /\ [][Next]_vars

Running == {"start", "loop", "fetching", "sleeping", "labelled", "priced", "built"}

\* main takes a step: every step of main moves pc or i, and while pc is in Running
\* no other step is possible
RunAdvances ==
    /\ pc \in Running
    /\ pc' \in Running \cup {"done", "exited"}
    /\ i' \in 0..(Len(holdings) + 1)

\* a started run is carried to its end: the event loop runs main to completion
\* (weak fairness of RunStep, stated on pc and i)
FairSpec == Spec /\ WF_<<pc, i>>(RunAdvances)

InitFn ==
    /\ apiKey = TRUE
    /\ holdingsFile = Missing
    /\ cacheFiles = [p \in CachePaths |-> NullCache]
    /\ perfFile = NullPerf
    /\ now = Now0
    /\ pc = "idle"
    /\ exitCode = 0
    /\ runs = 0
    /\ holdingsRaw = <<>>
    /\ holdings = <<>>
    /\ i = 0
    /\ cached = NullCache
    /\ series = NullSeries
    /\ seriesByTicker = EmptyMap
    /\ latestPriceByTicker = EmptyMap
    /\ endFriday = 0
    /\ labels = <<>>
    /\ weeklyPrices = <<>>
    /\ baselinePortfolioPrice = 0
    /\ longTermIndex = <<>>
    /\ event = "init"
    /\ sinceFetch = "none"
    /\ writtenFrom = EmptyMap
    /\ call \in FnCalls
    /\ ret = NoRet

NextFn ==
    \/ CallMostRecentFriday
    \/ CallPriceOnOrBefore
    \/ CallPortfolioPriceAtDate

SpecFn == InitFn /\ [][NextFn]_vars

----------------------------------------------------------------------------
(* Properties *)

\* calendar order of two dates
DateLeq(a, b) == a[1] * 10000 + a[2] * 100 + a[3] <= b[1] * 10000 + b[2] * 100 + b[3]

\* Friday 2025-01-03T00:00Z
AFriday == 20091 * HoursPerDay

IsFridayMidnight(d) == d % HoursPerDay = 0 /\ (d - AFriday) % (7 * HoursPerDay) = 0

\* C1: when a fetch fails, the ticker's series is the cached series if the cache
\* entry has one (stale or not) and null otherwise, the loop goes on to the
\* remaining tickers, and the run reaches the write of performance.json; the
\* process exits only before the loop.
C1_FailureFallsBack ==
    /\ [](event = "fetchFail" =>
            /\ pc = "loop"
            /\ i - 1 \in 1..Len(holdings)
            /\ cached = cacheFiles[holdings[i - 1].ticker]
            /\ series = (IF cached.exists /\ ~cached.series.isNull
                         THEN cached.series ELSE NullSeries)
            /\ seriesByTicker[holdings[i - 1].ticker] = series)
    /\ [](pc = "exited" => i = 0)
    /\ [](pc = "done" => \A k \in 1..Len(holdings) : holdings[k].ticker \in DOMAIN seriesByTicker)
    /\ ((event = "fetchFail") ~> (pc = "done"))

\* a run whose last fetch failed with a stale cache entry has written the document from it
C1_Witness ==
    /\ pc = "done"
    /\ perfFile.exists
    /\ sinceFetch = "fetched"
    /\ event = "write"
    /\ cached.exists /\ cached.hasFetchedAt /\ now - cached.fetchedAt >= MaxAgeHours
    /\ ~cached.series.isNull
    /\ seriesByTicker["A"] = cached.series
    /\ Len(holdings) = 2

ConfigMissing == ~apiKey \/ ~holdingsFile.exists

\* C2: with the credential or the holdings file missing, a started run exits
\* with a non-zero status at once: no fetch is attempted and no cache file and
\* no performance.json is written.
C2_ConfigErrorHalts ==
    /\ [](ConfigMissing =>
            /\ pc \in {"idle", "start", "exited"}
            /\ sinceFetch = "none"
            /\ (pc = "exited" => exitCode # 0))
    /\ [][ConfigMissing =>
            /\ cacheFiles' = cacheFiles
            /\ perfFile' = perfFile
            /\ (pc = "start" => pc' = "exited" /\ exitCode' # 0)]_vars

\* the holdings file is missing, a stale cache entry is there, and the run has exited
C2_Witness ==
    /\ pc = "exited"
    /\ exitCode = 1
    /\ apiKey
    /\ ~holdingsFile.exists
    /\ cacheFiles["A"].exists

PositiveWeeks == {k \in 1..Len(weeklyPrices) : weeklyPrices[k].total > 0}

LastOf(doc) == doc.longTermIndex[Len(doc.longTermIndex)]

SameWeekRewrite ==
    /\ perfFile.exists
    /\ perfFile'.exists
    /\ event' = "write"
    /\ pc = "built"
    /\ perfFile'.historyAsOfFridayUTC = perfFile.historyAsOfFridayUTC

NoDuplicate(ls) == \A j, k \in 1..Len(ls) : j # k => ls[j] # ls[k]

C5_MostRecentFriday ==
    (call.op = "mostRecentFridayUTC" /\ ret.done) =>
        LET today == call.now - (call.now % HoursPerDay)
        IN  /\ IsFridayMidnight(ret.d)
            /\ ret.d <= today
            /\ today - ret.d <= 6 * HoursPerDay
            /\ (IsFridayMidnight(today) => ret.d = today)

\* the function was called late on a Friday and returned that day
C5_Witness ==
    /\ call.op = "mostRecentFridayUTC"
    /\ ret.done
    /\ call.now % HoursPerDay = 23
    /\ IsFridayMidnight(call.now - 23)
    /\ ret.d = call.now - 23

\* C6: priceOnOrBefore returns the price stored at the latest date of the series
\* that is <= the target, in any key order, and null when the series is null,
\* empty or has no such date.
C6_PriceOnOrBefore ==
    (call.op = "priceOnOrBefore" /\ ret.done) =>
        LET es == call.seriesObj.entries
            ok == {k \in 1..Len(es) : DateLeq(es[k].date, call.targetISO)}
        IN  IF call.seriesObj.isNull \/ ok = {}
            THEN ret.px = NullPx
            ELSE \E k \in ok :
                    /\ \A j \in ok : DateLeq(es[j].date, es[k].date)
                    /\ ret.px = Px(es[k].px)

\* {2024-01-05: 10, 2024-01-12: 11} at 2024-01-10 gave 10
C6_Witness ==
    /\ call.op = "priceOnOrBefore"
    /\ ret.done
    /\ call.seriesObj = Obj(<<E(2024, 1, 5, 10), E(2024, 1, 12, 11)>>)
    /\ call.targetISO = <<2024, 1, 10>>
    /\ ret.px = Px(10)

\* the holding counts: positive weight, a ticker, a finite price on or before the date
Counts(h, byTicker, dateISO) ==
    /\ h.weight # NaN
    /\ h.weight > 0
    /\ trim(h.ticker) # ""
    /\ LET px == priceOnOrBefore(Lookup(byTicker, toUpperCase(trim(h.ticker))), dateISO)
       IN  ~px.isNull /\ px.v # NaN

RECURSIVE SumCounted(_, _, _, _)
\* the sum over the counted holdings of the weight (byPrice false) or of weight x price
SumCounted(hs, byTicker, dateISO, byPrice) ==
    IF hs = <<>> THEN 0
    ELSE SumCounted(Tail(hs), byTicker, dateISO, byPrice) +
         (IF Counts(Head(hs), byTicker, dateISO)
          THEN (IF byPrice
                THEN Head(hs).weight *
                     priceOnOrBefore(Lookup(byTicker, toUpperCase(trim(Head(hs).ticker))),
                                     dateISO).v
                ELSE Head(hs).weight)
          ELSE 0)

\* C7: portfolioPriceAtDate returns the sum of weight x price and the sum of the
\* weights over exactly the holdings with a positive weight, a ticker and a
\* price on or before the date; the others add to neither.
C7_PortfolioPrice ==
    (call.op = "portfolioPriceAtDate" /\ ret.done) =>
        /\ ret.p.total =
             SumCounted(call.holdings, call.seriesByTicker, call.dateISO, TRUE)
        /\ ret.p.coveredWeight =
             SumCounted(call.holdings, call.seriesByTicker, call.dateISO, FALSE)

\* a holding of weight 3 priced 10 and a holding of weight 1 without a price: 30 and 3
C7_Witness ==
    /\ call.op = "portfolioPriceAtDate"
    /\ ret.done
    /\ call.holdings = <<H(" a", 3), H("B", 1)>>
    /\ call.dateISO = <<2024, 1, 10>>
    /\ priceOnOrBefore(Lookup(call.seriesByTicker, "A"), call.dateISO) = Px(10)
    /\ priceOnOrBefore(Lookup(call.seriesByTicker, "B"), call.dateISO) = NullPx
    /\ ret.p = [total |-> 30, coveredWeight |-> 3]

\* C8 (as claimed): no fetch starts while the previous fetch of the run has not
\* been followed by the pacing delay.
C8_EveryFetchPaced == pc = "fetching" => sinceFetch # "fetched"

\* C9 (as claimed): latest.changePct is the change of the last index value
\* relative to longTermIndex[0], whatever that first point is; no finite
\* number is a change relative to a first point of 0.
C9_RelativeToFirstPoint ==
    perfFile.exists =>
        IF perfFile.longTermIndex[1] = 0 THEN FALSE
        ELSE perfFile.latest.changePct =
                ChangePct(LastOf(perfFile), perfFile.longTermIndex[1])

\* C9 (amended): latest.changePct is the change of the last index value relative
\* to longTermIndex[0] when that first point is not 0, and relative to 100 when
\* it is 0.
C9_RelativeToFirstPointOr100 ==
    perfFile.exists =>
        perfFile.latest.changePct =
            ChangePct(LastOf(perfFile),
                      IF perfFile.longTermIndex[1] # 0
                      THEN perfFile.longTermIndex[1] ELSE 100 * IndexScale)

\* a document whose first point is 0 and whose last point is not
C9_Witness ==
    /\ perfFile.exists
    /\ perfFile.longTermIndex[1] = 0
    /\ LastOf(perfFile) > 100 * IndexScale
    /\ perfFile.latest.changePct > 0

FreshWithSeries(c, t) ==
    /\ c.exists
    /\ c.hasFetchedAt
    /\ t - c.fetchedAt < 24
    /\ ~c.series.isNull

\* C10: a cache file changes only in the step that follows a successful fetch of
\* its ticker; at a ticker whose entry is under 24 hours old and has a series no
\* call is made and the file stays; a failed fetch leaves the files as they are.
C10_CacheWrittenOnSuccessOnly ==
    [][/\ (cacheFiles' # cacheFiles =>
              /\ pc = "fetching"
              /\ event' = "fetchOk"
              /\ \A p \in CachePaths : p # holdings[i].ticker => cacheFiles'[p] = cacheFiles[p]
              /\ cacheFiles'[holdings[i].ticker] = CacheObj(now, series')
              /\ ~series'.isNull)
       /\ ((pc = "loop" /\ i <= Len(holdings)
              /\ FreshWithSeries(cacheFiles[holdings[i].ticker], now)) =>
              /\ pc' # "fetching"
              /\ cacheFiles' = cacheFiles)
       /\ ((pc = "fetching" /\ event' = "fetchFail") => cacheFiles' = cacheFiles)]_vars

\* the second run used, without a call, the entry the first run wrote after its fetch
C10_Witness ==
    /\ event = "useCache"
    /\ runs = 2
    /\ now = Now0 + 12
    /\ cached.fetchedAt = Now0
    /\ cacheFiles[holdings[i - 1].ticker] = cached

====
